---- MODULE Spec2Model ----
(***************************************************************************)
(* Storage Bay Designer (src/app.py): the bay-group parameter model, the   *)
(* validator, the two height reconciliation callbacks, the script run that *)
(* processes one edit event, and the rectangles of the layout.             *)
(*                                                                         *)
(* Lengths are Python floats in millimetres.  They are modelled as         *)
(* fixed-point integers, MM units to the millimetre; sums and products of  *)
(* such values are exact and a float division rounds to the nearest unit.  *)
(***************************************************************************)
EXTENDS Integers, Sequences, FiniteSets, TLC

\* ------------------------------------------------------------------ bounds
MaxRows == 5
MaxValRows == 2

\* ------------------------------------------------------------- arithmetic
MM == 1000

Abs(x) == IF x < 0 THEN 0 - x ELSE x

Min(a, b) == IF a < b THEN a ELSE b

Max(a, b) == IF a > b THEN a ELSE b

\* a / n for n > 0, rounded to the nearest unit (ties away from zero)
FDiv(a, n) ==
  IF a >= 0 THEN (2 * a + n) \div (2 * n)
  ELSE 0 - ((2 * (0 - a) + n) \div (2 * n))

RECURSIVE sum(_)
sum(s) == IF s = << >> THEN 0 ELSE Head(s) + sum(Tail(s))

\* the validator's tolerance, 0.1 mm
Tol == MM \div 10

\* ---------------------------------------------------------- the first group
DefaultGroup ==
  [ name                 |-> "Group A",
    num_bays             |-> 2,
    bay_width            |-> 1050 * MM,
    total_height         |-> 2000 * MM,
    ground_clearance     |-> 50 * MM,
    shelf_thickness      |-> 18 * MM,
    side_panel_thickness |-> 18 * MM,
    bin_split_thickness  |-> 18 * MM,
    num_cols             |-> 4,
    num_rows             |-> 5,
    has_top_cap          |-> TRUE,
    bin_heights          |-> [i \in 1..5 |-> 350 * MM],
    lock_heights         |-> [i \in 1..5 |-> FALSE] ]

\* ------------------------------------------------------------- validator
\* num_shelves * shelf_thickness + ground_clearance + sum(bin_heights)
required_height(params) ==
  sum(params.bin_heights)
    + (params.num_rows + (IF params.has_top_cap THEN 1 ELSE 0)) * params.shelf_thickness
    + params.ground_clearance

\* errors.append(msg) when the condition holds
Append_if(errors, cond, msg) == IF cond THEN Append(errors, msg) ELSE errors

\* variant: returns at the first failed check
validate_group_params_FirstOnly(params) ==
  IF params.num_bays < 1 THEN << "num_bays" >>
  ELSE IF params.bay_width <= 0 THEN << "bay_width" >>
  ELSE IF params.total_height <= 0 THEN << "total_height" >>
  ELSE IF params.ground_clearance < 0 THEN << "ground_clearance" >>
  ELSE IF params.shelf_thickness <= 0 THEN << "shelf_thickness" >>
  ELSE IF params.side_panel_thickness <= 0 THEN << "side_panel_thickness" >>
  ELSE IF params.bin_split_thickness <= 0 THEN << "bin_split_thickness" >>
  ELSE IF params.num_cols < 1 THEN << "num_cols" >>
  ELSE IF params.num_rows < 1 THEN << "num_rows" >>
  ELSE IF Abs(required_height(params) - params.total_height) > Tol THEN << "height" >>
  ELSE << >>

validate_group_params(params) ==
  LET e1  == Append_if(<< >>, params.num_bays < 1, "num_bays")
      e2  == Append_if(e1, params.bay_width <= 0, "bay_width")
      e3  == Append_if(e2, params.total_height <= 0, "total_height")
      e4  == Append_if(e3, params.ground_clearance < 0, "ground_clearance")
      e5  == Append_if(e4, params.shelf_thickness <= 0, "shelf_thickness")
      e6  == Append_if(e5, params.side_panel_thickness <= 0, "side_panel_thickness")
      e7  == Append_if(e6, params.bin_split_thickness <= 0, "bin_split_thickness")
      e8  == Append_if(e7, params.num_cols < 1, "num_cols")
      e9  == Append_if(e8, params.num_rows < 1, "num_rows")
      e10 == Append_if(e9, Abs(required_height(params) - params.total_height) > Tol,
                       "height")
  IN  e10

\* ------------------------------------------------------ height reconciler
\* variant: the share is available / num_rows
distribute_total_height_DivByRows(active_group) ==
  LET available_space ==
        active_group.total_height - active_group.ground_clearance
          - (active_group.num_rows + (IF active_group.has_top_cap THEN 1 ELSE 0))
              * active_group.shelf_thickness
      unlocked_indices ==
        {i \in 1..Len(active_group.lock_heights) : ~active_group.lock_heights[i]}
  IN  IF available_space > 0 /\ unlocked_indices # {}
      THEN [active_group EXCEPT !.bin_heights =
              [i \in 1..Len(active_group.bin_heights) |->
                 IF i \in unlocked_indices
                 THEN FDiv(available_space, active_group.num_rows)
                 ELSE active_group.bin_heights[i]]]
      ELSE active_group

\* variant: the lock flags are not consulted
distribute_total_height_AllLevels(active_group) ==
  LET available_space ==
        active_group.total_height - active_group.ground_clearance
          - (active_group.num_rows + (IF active_group.has_top_cap THEN 1 ELSE 0))
              * active_group.shelf_thickness
  IN  IF available_space > 0 /\ Len(active_group.bin_heights) > 0
      THEN [active_group EXCEPT !.bin_heights =
              [i \in 1..Len(active_group.bin_heights) |->
                 FDiv(available_space, Len(active_group.bin_heights))]]
      ELSE active_group

\* variant: the ground clearance is not taken off the available space
distribute_total_height_NoClearance(active_group) ==
  LET available_space ==
        active_group.total_height
          - (active_group.num_rows + (IF active_group.has_top_cap THEN 1 ELSE 0))
              * active_group.shelf_thickness
      unlocked_indices ==
        {i \in 1..Len(active_group.lock_heights) : ~active_group.lock_heights[i]}
  IN  IF available_space > 0 /\ unlocked_indices # {}
      THEN [active_group EXCEPT !.bin_heights =
              [i \in 1..Len(active_group.bin_heights) |->
                 IF i \in unlocked_indices
                 THEN FDiv(available_space, Cardinality(unlocked_indices))
                 ELSE active_group.bin_heights[i]]]
      ELSE active_group

distribute_total_height(active_group) ==
  LET num_shelves_for_calc ==
        active_group.num_rows + (IF active_group.has_top_cap THEN 1 ELSE 0)
      total_shelf_thickness == num_shelves_for_calc * active_group.shelf_thickness
      available_space ==
        active_group.total_height - active_group.ground_clearance - total_shelf_thickness
      unlocked_indices ==
        {i \in 1..Len(active_group.lock_heights) : ~active_group.lock_heights[i]}
      num_unlocked == Cardinality(unlocked_indices)
      uniform_net_h == FDiv(available_space, num_unlocked)
  IN  IF available_space > 0 /\ num_unlocked > 0
      THEN [active_group EXCEPT !.bin_heights =
              [i \in 1..Len(active_group.bin_heights) |->
                 IF i \in unlocked_indices THEN uniform_net_h
                 ELSE active_group.bin_heights[i]]]
      ELSE active_group

\* variant: the top cap is not counted as a shelf
update_total_height_NoTopCap(active_group) ==
  [active_group EXCEPT !.total_height =
     sum(active_group.bin_heights)
       + active_group.num_rows * active_group.shelf_thickness
       + active_group.ground_clearance]

update_total_height(active_group) ==
  LET num_shelves_for_calc ==
        active_group.num_rows + (IF active_group.has_top_cap THEN 1 ELSE 0)
      total_shelf_thickness == num_shelves_for_calc * active_group.shelf_thickness
      total_net_bin_h == sum(active_group.bin_heights)
  IN  [active_group EXCEPT !.total_height =
         total_net_bin_h + total_shelf_thickness + active_group.ground_clearance]

\* ------------------------------------------------------- the live preview
Rect(role, x, y, width, height) ==
  [role |-> role, x |-> x, y |-> y, width |-> width, height |-> height]

\* lines 80-82: the thicknesses the rectangles are drawn with
visual_shelf_thickness(params) == Min(params.shelf_thickness, 18 * MM)

visual_bin_split_thickness(params) == Min(params.bin_split_thickness, 18 * MM)

visual_side_panel_thickness(params) == Max(params.side_panel_thickness, 10 * MM)

core_width(params) == params.num_bays * params.bay_width

total_group_width(params) == core_width(params) + 2 * params.side_panel_thickness

\* lines 101-103
bin_width(params) ==
  LET net_width_per_bay == params.bay_width - 2 * params.side_panel_thickness
      total_internal_dividers == (params.num_cols - 1) * params.bin_split_thickness
  IN  IF params.num_cols > 0
      THEN FDiv(net_width_per_bay - total_internal_dividers, params.num_cols)
      ELSE 0

\* lines 93-95
draw_side_panels(params) ==
  << Rect("SidePanel", 0 - visual_side_panel_thickness(params), 0,
          visual_side_panel_thickness(params), params.total_height),
     Rect("SidePanel", core_width(params), 0,
          visual_side_panel_thickness(params), params.total_height) >>

\* variant: current_x is not advanced from bay to bay
draw_bays_NoBayOffset(params) ==
  LET per_bay == IF params.num_cols > 1 THEN params.num_cols - 1 ELSE 0
  IN  [k \in 1..(params.num_bays * per_bay) |->
         LET i == ((k - 1) % per_bay) + 1
         IN  Rect("Divider",
                  (i * bin_width(params)) + ((i - 1) * params.bin_split_thickness),
                  params.ground_clearance, visual_bin_split_thickness(params),
                  params.total_height - params.ground_clearance)]

\* lines 98-115: the bin splits of every bay, bay by bay
draw_bays(params) ==
  LET per_bay == IF params.num_cols > 1 THEN params.num_cols - 1 ELSE 0
      structure_height == params.total_height - params.ground_clearance
  IN  [k \in 1..(params.num_bays * per_bay) |->
         LET bay_idx == (k - 1) \div per_bay
             i == ((k - 1) % per_bay) + 1
             bin_start_x == bay_idx * params.bay_width
             split_x == bin_start_x + (i * bin_width(params))
                          + ((i - 1) * params.bin_split_thickness)
         IN  Rect("Divider", split_x, params.ground_clearance,
                  visual_bin_split_thickness(params), structure_height)]

\* current_y at the start of row i (rows counted from 1), lines 119-141
RECURSIVE current_y(_, _)
current_y(params, i) ==
  IF i <= 1 THEN params.ground_clearance
  ELSE IF i - 1 <= Len(params.bin_heights)
       THEN current_y(params, i - 1) + params.shelf_thickness + params.bin_heights[i - 1]
       ELSE current_y(params, i - 1)

\* lines 118-144: one shelf per row and the top cap
draw_shelves(params) ==
  [i \in 1..params.num_rows |->
     Rect("Shelf", 0 - visual_side_panel_thickness(params), current_y(params, i),
          total_group_width(params), visual_shelf_thickness(params))]
  \o (IF params.has_top_cap
      THEN << Rect("TopCap", 0 - visual_side_panel_thickness(params),
                   params.total_height - visual_shelf_thickness(params),
                   total_group_width(params), visual_shelf_thickness(params)) >>
      ELSE << >>)

\* variant: a level's bin starts at the shelf's bottom
level_spans_NoShelf(params) ==
  [i \in 1..Min(params.num_rows, Len(params.bin_heights)) |->
     LET shelf_bottom_y == current_y(params, i)
     IN  [ shelf |-> << shelf_bottom_y, shelf_bottom_y + params.shelf_thickness >>,
           bin |-> << shelf_bottom_y, shelf_bottom_y + params.bin_heights[i] >> ]]

\* lines 122-141 (and 336-355 of the export): the vertical span of each row's
\* shelf, shelf_bottom_y to shelf_top_y, and of its bin, bin_bottom_y to
\* bin_top_y
level_spans(params) ==
  [i \in 1..Min(params.num_rows, Len(params.bin_heights)) |->
     LET shelf_bottom_y == current_y(params, i)
         shelf_top_y == shelf_bottom_y + params.shelf_thickness
         net_bin_h == params.bin_heights[i]
         bin_bottom_y == shelf_top_y
         bin_top_y == bin_bottom_y + net_bin_h
     IN  [ shelf |-> << shelf_bottom_y, shelf_top_y >>,
           bin |-> << bin_bottom_y, bin_top_y >> ]]

\* lines 143-144 (and 359-360): the vertical span of the top cap
cap_span(params) ==
  IF params.has_top_cap
  THEN << << params.total_height - visual_shelf_thickness(params), params.total_height >> >>
  ELSE << >>

\* lines 62-181: the rectangles added to the axes, in drawing order
draw_bay_group(params) ==
  [ parts |-> draw_side_panels(params) \o draw_bays(params) \o draw_shelves(params),
    levels |-> level_spans(params),
    cap |-> cap_span(params) ]

\* --------------------------------------------------- the PowerPoint export
\* slide coordinates are whole numbers of 1/EMU of an English Metric Unit
EMU == 10

\* pptx.util.Inches, of a length given in hundredths of an inch
Inches(hundredths) == hundredths * 9144 * EMU

\* line 255
pt_to_emu(points) == points * 12700 * EMU

\* line 251
canvas_left == Inches(150)

canvas_top == Inches(100)

canvas_width == Inches(700)

canvas_height == Inches(550)

\* line 253: the scale, in 1/MM; a canvas of c EMU over a length of m mm is at
\* least 1 exactly when m <= c
scale(group_data) ==
  LET ratio(canvas, mm) ==
        IF (mm + MM - 1) \div MM <= canvas \div EMU THEN MM
        ELSE FDiv(canvas \div EMU, FDiv(mm, MM * MM))
  IN  Min(Max(Min(ratio(canvas_width, total_group_width(group_data)),
                  ratio(canvas_height, group_data.total_height)),
              MM \div 10),
          MM)

\* a length in mm times the scale, on the slide
Scaled(mm, s) == FDiv(FDiv(mm, MM \div EMU) * s, MM)

\* lines 258-271: the rectangle added to the slide; role names the part the
\* call draws
add_shape(role, left_mm, top_mm, width_mm, height_mm, s) ==
  IF left_mm < 0 \/ top_mm < 0 \/ width_mm <= 0 \/ height_mm <= 0 \/ s <= 0
  THEN [ role |-> role, fallback |-> TRUE, left |-> canvas_left, top |-> canvas_top,
         width |-> Inches(10), height |-> Inches(10) ]
  ELSE [ role |-> role, fallback |-> FALSE,
         left |-> canvas_left + Scaled(left_mm, s),
         top |-> canvas_top + Scaled(top_mm, s),
         width |-> Max(Scaled(width_mm, s), Inches(5)),
         height |-> Max(Scaled(height_mm, s), Inches(5)) ]

\* the arguments of one add_dimension call
Dimension(kind, start_x, start_y, end_x, end_y, text) ==
  [ kind |-> kind, start_x |-> start_x, start_y |-> start_y,
    end_x |-> end_x, end_y |-> end_y, text |-> text ]

\* line 274: the call returns without adding a connector
dimension_rejected(d, s) ==
  d.start_x >= d.end_x \/ d.start_y >= d.end_y \/ s <= 0

\* lines 273-297: the connectors on the slide after the given calls
add_dimension(calls, s) ==
  SelectSeq(calls, LAMBDA d : ~dimension_rejected(d, s))

\* lines 307-309
export_bin_width(group_data) ==
  LET net_width_per_bay == group_data.bay_width - 2 * group_data.side_panel_thickness
      total_internal_dividers == (group_data.num_cols - 1) * group_data.bin_split_thickness
  IN  IF group_data.num_cols > 0
      THEN FDiv(net_width_per_bay - total_internal_dividers, group_data.num_cols)
      ELSE 0

\* lines 155-157: the bin width the preview's annotations are labelled with
dimension_bin_width(params) ==
  LET net_width_per_bay == params.bay_width - 2 * params.side_panel_thickness
      total_internal_dividers == (params.num_cols - 1) * params.bin_split_thickness
  IN  IF params.num_cols > 0
      THEN FDiv(net_width_per_bay - total_internal_dividers, params.num_cols)
      ELSE 0

\* lines 301-330: the side panels and, bay by bay, the bin splits
export_structure(group_data) ==
  LET s == scale(group_data)
      per_bay == IF group_data.num_cols > 1 THEN group_data.num_cols - 1 ELSE 0
      structure_height == group_data.total_height - group_data.ground_clearance
      splits ==
        [k \in 1..(group_data.num_bays * per_bay) |->
           LET bay_idx == (k - 1) \div per_bay
               i == ((k - 1) % per_bay) + 1
               bin_start_x_mm == visual_side_panel_thickness(group_data)
                                   + (bay_idx * group_data.bay_width)
               split_x_mm == bin_start_x_mm + (i * export_bin_width(group_data))
                               + ((i - 1) * group_data.bin_split_thickness)
           IN  add_shape("Divider", split_x_mm, group_data.ground_clearance,
                         visual_bin_split_thickness(group_data), structure_height, s)]
      current_x_mm == visual_side_panel_thickness(group_data)
                        + (group_data.num_bays * group_data.bay_width)
  IN  << add_shape("SidePanel", 0, 0, visual_side_panel_thickness(group_data),
                   group_data.total_height, s) >>
      \o splits
      \o << add_shape("SidePanel", current_x_mm, 0,
                      visual_side_panel_thickness(group_data),
                      group_data.total_height, s) >>

\* lines 336-338 and 359-360: one shelf per row, then the top cap
export_shelves(group_data) ==
  LET s == scale(group_data)
  IN  [i \in 1..group_data.num_rows |->
         add_shape("Shelf", 0, current_y(group_data, i),
                   total_group_width(group_data),
                   visual_shelf_thickness(group_data), s)]
      \o (IF group_data.has_top_cap
          THEN << add_shape("TopCap", 0,
                            group_data.total_height - visual_shelf_thickness(group_data),
                            total_group_width(group_data),
                            visual_shelf_thickness(group_data), s) >>
          ELSE << >>)

\* lines 320-324: one add_dimension call per bin of every bay
bin_width_dimensions(group_data) ==
  LET s == scale(group_data)
      dim_y == canvas_top - pt_to_emu(20)
  IN  [k \in 1..(group_data.num_bays * Max(group_data.num_cols, 0)) |->
         LET bay_idx == (k - 1) \div group_data.num_cols
             i == (k - 1) % group_data.num_cols
             bin_start_x_mm == visual_side_panel_thickness(group_data)
                                 + (bay_idx * group_data.bay_width)
             dim_start_x ==
               canvas_left
                 + Scaled(bin_start_x_mm
                            + (i * (export_bin_width(group_data)
                                      + group_data.bin_split_thickness)), s)
             dim_end_x == dim_start_x + Scaled(export_bin_width(group_data), s)
         IN  Dimension("bin_width", dim_start_x, dim_y, dim_end_x, dim_y,
                       export_bin_width(group_data))]

\* lines 341-353: the net height and the pitch of row i
level_dimensions(group_data, i) ==
  LET s == scale(group_data)
      shelf_bottom_y == current_y(group_data, i)
      shelf_top_y == shelf_bottom_y + group_data.shelf_thickness
      net_bin_h == group_data.bin_heights[i]
      pitch_h == net_bin_h + group_data.shelf_thickness
      dim_start_y == canvas_top + Scaled(shelf_top_y, s)
      dim_end_y == canvas_top + Scaled(shelf_top_y + net_bin_h, s)
      dim_x == canvas_left + Scaled(total_group_width(group_data) + (50 * MM), s)
      pitch_dim_start_y == canvas_top + Scaled(shelf_bottom_y, s)
      pitch_dim_end_y == canvas_top + Scaled(shelf_bottom_y + pitch_h, s)
      pitch_dim_x == canvas_left + Scaled(total_group_width(group_data) + (150 * MM), s)
  IN  << Dimension("net_height", dim_x, dim_start_y, dim_x, dim_end_y, net_bin_h),
         Dimension("pitch", pitch_dim_x, pitch_dim_start_y, pitch_dim_x,
                   pitch_dim_end_y, pitch_h) >>

\* lines 336-353: the calls of the rows that have a height, bottom row first
RECURSIVE shelf_dimensions(_, _)
shelf_dimensions(group_data, n) ==
  IF n <= 0 THEN << >>
  ELSE shelf_dimensions(group_data, n - 1)
         \o (IF n <= Len(group_data.bin_heights)
             THEN level_dimensions(group_data, n)
             ELSE << >>)

\* lines 363-367
outer_dimensions(group_data) ==
  LET s == scale(group_data)
      total_w_y == canvas_top + canvas_height + pt_to_emu(20)
      total_h_x == canvas_left - pt_to_emu(40)
  IN  << Dimension("total_width", canvas_left, total_w_y,
                   canvas_left + Scaled(total_group_width(group_data), s), total_w_y,
                   total_group_width(group_data)),
         Dimension("total_height", total_h_x, canvas_top, total_h_x,
                   canvas_top + Scaled(group_data.total_height, s),
                   group_data.total_height) >>

\* lines 319-367: every add_dimension call of a group's slide
export_dimensions(group_data) ==
  bin_width_dimensions(group_data)
    \o shelf_dimensions(group_data, group_data.num_rows)
    \o outer_dimensions(group_data)

\* lines 232-367: the slide of one group
export_slide(group_data) ==
  [ name |-> group_data.name,
    bin_width |-> export_bin_width(group_data),
    shapes |-> export_structure(group_data) \o export_shelves(group_data),
    dimensions |-> export_dimensions(group_data),
    connectors |-> add_dimension(export_dimensions(group_data), scale(group_data)) ]

\* variant: the top cap is not counted as a shelf
create_summary_slide_NoTopCap(groups) ==
  LET row(group) ==
        [ name |-> group.name, side_panels |-> 2, shelves |-> group.num_rows,
          dividers |-> (group.num_cols - 1) * group.num_bays ]
      rows == [i \in 1..Len(groups) |-> row(groups[i])]
  IN  [ rows |-> rows,
        total |-> [ side_panels |-> sum([i \in 1..Len(rows) |-> rows[i].side_panels]),
                    shelves |-> sum([i \in 1..Len(rows) |-> rows[i].shelves]),
                    dividers |-> sum([i \in 1..Len(rows) |-> rows[i].dividers]) ] ]

\* lines 183-223: the rows of the bill of materials and its totals
create_summary_slide(groups) ==
  LET row(group) ==
        [ name |-> group.name, side_panels |-> 2,
          shelves |-> group.num_rows + (IF group.has_top_cap THEN 1 ELSE 0),
          dividers |-> (group.num_cols - 1) * group.num_bays ]
      rows == [i \in 1..Len(groups) |-> row(groups[i])]
  IN  [ rows |-> rows,
        total |-> [ side_panels |-> sum([i \in 1..Len(rows) |-> rows[i].side_panels]),
                    shelves |-> sum([i \in 1..Len(rows) |-> rows[i].shelves]),
                    dividers |-> sum([i \in 1..Len(rows) |-> rows[i].dividers]) ] ]

\* lines 225-374: the summary slide, then one slide per group
create_editable_powerpoint(groups) ==
  [ summary |-> create_summary_slide(groups),
    slides |-> [i \in 1..Len(groups) |-> export_slide(groups[i])] ]

\* ------------------------------------------------------------------ state
VARIABLES
  params,    \* the group a function is applied to
  orig,      \* the group as first given
  before,    \* the group before the last call
  trace,     \* the calls made so far, oldest first
  errors,    \* the list returned by the last validate_group_params call
  drawing,   \* the rectangles and level spans of the last draw_bay_group call
  document,  \* the slides of the last create_editable_powerpoint call
  bay_groups,        \* st.session_state.bay_groups
  active_group_idx,  \* index (from 1) of the group selected in the sidebar
  auto_distribute,   \* the "Auto-distribute Heights" checkbox of the active group
  shared_lists,      \* index of the group whose bin_heights/lock_heights are the
                     \* very list objects of the first group, 0 when none is
  pending_rerun,     \* st.rerun() was called and the rerun has not run yet
  edits,             \* number of user events processed
  run                \* what the last script run did

fnvars == << params, orig, before, trace, errors, drawing, document >>

appvars == << bay_groups, active_group_idx, auto_distribute, shared_lists,
              pending_rerun, edits, run >>

vars == << params, orig, before, trace, errors, drawing, document, bay_groups, active_group_idx,
           auto_distribute, shared_lists, pending_rerun, edits, run >>

NoGroup == [name |-> "None"]

\* nothing drawn
NoDrawing == [parts |-> << >>, levels |-> << >>, cap |-> << >>]

\* nothing exported
NoDocument == [summary |-> [rows |-> << >>], slides |-> << >>]

\* a script run that has not happened
NoRun ==
  [ event |-> "none", calls |-> << >>, resize |-> << >>, errors |-> << >>,
    previewed |-> NoGroup, validated |-> << >>, exported |-> << >> ]

\* lines 377-394: the session state of a fresh session
AppStart ==
  /\ bay_groups = << DefaultGroup >>
  /\ active_group_idx = 1
  /\ auto_distribute = TRUE
  /\ shared_lists = 0
  /\ pending_rerun = TRUE
  /\ edits = 0
  /\ run = NoRun

FnStart ==
  /\ params = DefaultGroup
  /\ orig = DefaultGroup
  /\ before = DefaultGroup
  /\ trace = << >>
  /\ errors = << >>
  /\ drawing = NoDrawing
  /\ document = NoDocument

\* ------------------------------------- the reconciler on bounded inputs
HeightVals == {350 * MM, 400 * MM}

TargetVals == {2000 * MM, 60 * MM}

ReconInit ==
  /\ \E n \in 1..MaxRows, c \in BOOLEAN :
       \E h \in [1..n -> HeightVals], l \in [1..n -> BOOLEAN] :
         LET g == [DefaultGroup EXCEPT !.num_rows = n, !.has_top_cap = c,
                                       !.bin_heights = h, !.lock_heights = l]
         IN  \E t \in TargetVals \cup {required_height(g)} :
               params = [g EXCEPT !.total_height = t]
  /\ orig = params
  /\ before = params
  /\ trace = << >>
  /\ errors = << >>
  /\ drawing = NoDrawing
  /\ document = NoDocument
  /\ AppStart

CallDistribute ==
  /\ Len(trace) < 2
  /\ before' = params
  /\ params' = distribute_total_height(params)
  /\ trace' = Append(trace, "distribute")
  /\ UNCHANGED << orig, errors, drawing, document >>
  /\ UNCHANGED appvars

CallUpdate ==
  /\ Len(trace) < 2
  /\ before' = params
  /\ params' = update_total_height(params)
  /\ trace' = Append(trace, "update")
  /\ UNCHANGED << orig, errors, drawing, document >>
  /\ UNCHANGED appvars

ReconNext == CallDistribute \/ CallUpdate

SpecRecon == ReconInit /\ [][ReconNext]_vars

\* ----------------------------------------- the validator on bounded inputs
ValidateInit ==
  /\ \E nb \in {0, 2}, bw \in {0, 1050 * MM}, gc \in {0 - 10 * MM, 50 * MM},
        st \in {0, 18 * MM}, sp \in {0, 18 * MM}, bs \in {0, 18 * MM},
        nc \in {0, 4}, nr \in 0..MaxValRows, c \in BOOLEAN :
       LET g == [DefaultGroup EXCEPT
                   !.num_bays = nb, !.bay_width = bw, !.ground_clearance = gc,
                   !.shelf_thickness = st, !.side_panel_thickness = sp,
                   !.bin_split_thickness = bs, !.num_cols = nc, !.num_rows = nr,
                   !.has_top_cap = c,
                   !.bin_heights = [i \in 1..nr |-> 350 * MM],
                   !.lock_heights = [i \in 1..nr |-> FALSE]]
       IN  \E t \in {0, 2000 * MM, required_height(g)} :
             params = [g EXCEPT !.total_height = t]
  /\ orig = params
  /\ before = params
  /\ trace = << >>
  /\ errors = << >>
  /\ drawing = NoDrawing
  /\ document = NoDocument
  /\ AppStart

CallValidate ==
  /\ trace = << >>
  /\ errors' = validate_group_params(params)
  /\ trace' = << "validate" >>
  /\ UNCHANGED << params, orig, before, drawing, document >>
  /\ UNCHANGED appvars

ValidateNext == CallValidate

SpecValidate == ValidateInit /\ [][ValidateNext]_vars

\* ------------------------------------------------------- the script run
\* Streamlit runs the whole script once per user event.  The on_change
\* callback of the edited widget runs first; then the body runs, in which the
\* edited widget returns the user's value and every other widget, its value=
\* argument being the group's current field, returns that field.  A selectbox
\* whose options changed is a new widget and returns its first option.

MaxEdits == 3
MaxGroups == 2
MaxEditLevel == 2

Event(w, v, j) == [widget |-> w, value |-> v, level |-> j]

NoEvent == Event("none", 0, 0)

\* the widgets created with on_change=update_total_height
UpdateWidgets ==
  {"ground_clearance", "has_top_cap", "num_rows", "level", "lock", "shelf_thickness"}

\* the group sharing list objects with group a, 0 when there is none
Peer(a) ==
  IF shared_lists = 0 THEN 0
  ELSE IF a = 1 THEN shared_lists
  ELSE IF a = shared_lists THEN 1
  ELSE 0

ActiveOf(rs) == rs.groups[rs.a]

\* an assignment to a key of the active group's dict
SetGroup(rs, g) == [rs EXCEPT !.groups[rs.a] = g]

\* a mutation of the active group's list objects in place: a group holding
\* the same list objects sees it
InPlace(rs, g) ==
  IF rs.peer = 0 THEN SetGroup(rs, g)
  ELSE [rs EXCEPT !.groups[rs.a] = g,
                  !.groups[rs.peer].bin_heights = g.bin_heights,
                  !.groups[rs.peer].lock_heights = g.lock_heights]

\* the active group's list keys bound to new list objects
Rebind(rs, g) == [SetGroup(rs, g) EXCEPT !.peer = 0]

\* a call of a reconciliation callback on the active group, recorded with the
\* row count and list lengths it finds
Reconcile(rs, op, line) ==
  LET g == ActiveOf(rs)
      seen == [op |-> op, line |-> line, num_rows |-> g.num_rows,
               len_heights |-> Len(g.bin_heights), len_locks |-> Len(g.lock_heights)]
      noted == [rs EXCEPT !.calls = Append(rs.calls, seen)]
  IN  IF op = "distribute"
      THEN InPlace(noted, distribute_total_height(g))
      ELSE SetGroup(noted, update_total_height(g))

\* the on_change callback of the edited widget, run before the body
on_change(rs, ev) ==
  IF ev.widget = "total_height" THEN Reconcile(rs, "distribute", 458)
  ELSE IF ev.widget \in UpdateWidgets THEN Reconcile(rs, "update", 446)
  ELSE rs

\* the value a widget of the active group returns
Widget(name, current, ev) == IF ev.widget = name THEN ev.value ELSE current

\* lines 455-460 and 464-465
structure_inputs(rs, ev) ==
  LET g == ActiveOf(rs)
  IN  SetGroup(rs,
        [g EXCEPT !.num_bays = Widget("num_bays", g.num_bays, ev),
                  !.bay_width = Widget("bay_width", g.bay_width, ev),
                  !.total_height = Widget("total_height", g.total_height, ev),
                  !.ground_clearance = Widget("ground_clearance", g.ground_clearance, ev),
                  !.has_top_cap = Widget("has_top_cap", g.has_top_cap, ev),
                  !.num_rows = Widget("num_rows", g.num_rows, ev),
                  !.num_cols = Widget("num_cols", g.num_cols, ev)])

\* variant: update_total_height is called before the lists are resized
resize_rows_UpdateFirst(rs, prev_num_rows) ==
  LET g == ActiveOf(rs)
      n == g.num_rows
      first == Reconcile(rs, "update", 478)
      g1 == ActiveOf(first)
  IN  IF prev_num_rows = n THEN rs
      ELSE IF n > Len(g.bin_heights)
      THEN InPlace(first, [g1 EXCEPT
             !.bin_heights = @ \o [i \in 1..(n - Len(@)) |-> g.bin_heights[1]],
             !.lock_heights = @ \o [i \in 1..(n - Len(@)) |-> FALSE]])
      ELSE Rebind(first, [g1 EXCEPT !.bin_heights = SubSeq(@, 1, n),
                                    !.lock_heights = SubSeq(@, 1, n)])

\* lines 467-478: bin_heights and lock_heights follow a changed num_rows
resize_rows(rs, prev_num_rows) ==
  LET g == ActiveOf(rs)
      n == g.num_rows
      default_height == IF g.bin_heights # << >> THEN g.bin_heights[1] ELSE 350 * MM
      extended == [g EXCEPT
                     !.bin_heights = @ \o [i \in 1..(n - Len(@)) |-> default_height],
                     !.lock_heights = @ \o [i \in 1..(n - Len(@)) |-> FALSE]]
      trimmed == [g EXCEPT !.bin_heights = SubSeq(@, 1, n),
                           !.lock_heights = SubSeq(@, 1, n)]
      resized == IF n > Len(g.bin_heights) THEN InPlace(rs, extended)
                 ELSE Rebind(rs, trimmed)
      noted == [resized EXCEPT !.resize =
                  << [from |-> prev_num_rows, to |-> n,
                      heights_before |-> g.bin_heights, locks_before |-> g.lock_heights,
                      heights_after |-> ActiveOf(resized).bin_heights,
                      locks_after |-> ActiveOf(resized).lock_heights] >>]
  IN  IF prev_num_rows # n THEN Reconcile(noted, "update", 478) ELSE rs

\* lines 480-507: the level widgets are read back into new lists, then one
\* of the two reconciliation functions is called
level_inputs(rs, ev, auto) ==
  LET g == ActiveOf(rs)
      current_bin_heights ==
        [j \in 1..g.num_rows |->
           IF ev.widget = "level" /\ ev.level = j THEN ev.value ELSE g.bin_heights[j]]
      current_lock_heights ==
        [j \in 1..g.num_rows |->
           IF ev.widget = "lock" /\ ev.level = j THEN ev.value ELSE g.lock_heights[j]]
      read == Rebind(rs, [g EXCEPT !.bin_heights = current_bin_heights,
                                   !.lock_heights = current_lock_heights])
  IN  IF auto THEN Reconcile(read, "distribute", 505)
      ELSE Reconcile(read, "update", 507)

\* lines 509-531
material_inputs(rs, ev) ==
  LET g == ActiveOf(rs)
  IN  SetGroup(rs,
        [g EXCEPT !.shelf_thickness = Widget("shelf_thickness", g.shelf_thickness, ev),
                  !.bin_split_thickness =
                     Widget("bin_split_thickness", g.bin_split_thickness, ev),
                  !.side_panel_thickness =
                     Widget("side_panel_thickness", g.side_panel_thickness, ev)])

\* lines 431-533 for one event on the active group
edit_group(rs, ev, auto) ==
  LET called == on_change(rs, ev)
      prev_num_rows == ActiveOf(called).num_rows
      structured == structure_inputs(called, ev)
      resized == resize_rows(structured, prev_num_rows)
      levelled == level_inputs(resized, ev, auto)
  IN  material_inputs(levelled, ev)

\* variant: the preview is drawn whatever the validator returned
preview_Unchecked(group_data, errs) == group_data

\* lines 549-553: the group handed to draw_bay_group, if any
preview(group_data, errs) == IF errs = << >> THEN group_data ELSE NoGroup

\* lines 561-569: the list handed to create_editable_powerpoint, if any
export(groups, a, pressed) ==
  LET has_errors == \E i \in 1..Len(groups) : validate_group_params(groups[i]) # << >>
  IN  IF pressed /\ ~has_errors THEN groups ELSE << >>

\* one complete run of the script for event ev, with group a selected
ScriptRun(ev, a, auto) ==
  LET rs0 == [groups |-> bay_groups, a |-> a, peer |-> Peer(a),
              calls |-> << >>, resize |-> << >>]
      \* callbacks were registered by the previous run, for the group it showed
      rs == edit_group(rs0, ev, auto)
      group_data == ActiveOf(rs)
      errs == validate_group_params(group_data)
  IN  /\ bay_groups' = rs.groups
      /\ active_group_idx' = a
      /\ auto_distribute' = auto
      /\ shared_lists' = IF Peer(a) # 0 /\ rs.peer = 0 THEN 0 ELSE shared_lists
      /\ pending_rerun' = FALSE
      /\ run' = [ event |-> ev.widget, calls |-> rs.calls, resize |-> rs.resize,
                  errors |-> errs,
                  previewed |-> preview(group_data, errs),
                  validated |-> IF ev.widget = "generate_pptx"
                                THEN [i \in 1..Len(rs.groups) |->
                                        validate_group_params(rs.groups[i])]
                                ELSE << >>,
                  exported |-> export(rs.groups, a, ev.widget = "generate_pptx") ]

\* ------------------------------------------------------- the user's events
NumBaysInputs == {1, 2}
BayWidthInputs == {1050 * MM, 600 * MM}
TotalHeightInputs == {2000 * MM, 1000 * MM, 100 * MM}
GroundClearanceInputs == {50 * MM, 0}
NumRowsInputs == {3, 5, 6}
NumColsInputs == {4, 1}
LevelHeightInputs == {350 * MM, 400 * MM}
ShelfThicknessInputs == {18 * MM, 25 * MM}
BinSplitInputs == {18 * MM, 20 * MM}
SidePanelInputs == {18 * MM, 5 * MM}
NameInputs == {"Group A", "New Group", "Group B"}

Idle == ~pending_rerun /\ edits < MaxEdits

Active == bay_groups[active_group_idx]

\* an event of one widget of the active group
Edit(ev) ==
  /\ Idle
  /\ edits' = edits + 1
  /\ ScriptRun(ev, active_group_idx, auto_distribute)
  /\ UNCHANGED fnvars

\* the rerun requested by st.rerun(), and the first run of a session
Rerun ==
  /\ pending_rerun
  /\ ScriptRun(NoEvent, active_group_idx, auto_distribute)
  /\ UNCHANGED << edits, fnvars >>

EditNumBays ==
  \E v \in NumBaysInputs : v # Active.num_bays /\ Edit(Event("num_bays", v, 0))

EditBayWidth ==
  \E v \in BayWidthInputs : v # Active.bay_width /\ Edit(Event("bay_width", v, 0))

EditTotalHeight ==
  \E v \in TotalHeightInputs :
    v # Active.total_height /\ Edit(Event("total_height", v, 0))

EditGroundClearance ==
  \E v \in GroundClearanceInputs :
    v # Active.ground_clearance /\ Edit(Event("ground_clearance", v, 0))

EditTopCap == Edit(Event("has_top_cap", ~Active.has_top_cap, 0))

EditNumRows ==
  \E v \in NumRowsInputs : v # Active.num_rows /\ Edit(Event("num_rows", v, 0))

EditNumCols ==
  \E v \in NumColsInputs : v # Active.num_cols /\ Edit(Event("num_cols", v, 0))

\* a level's number input is disabled while auto-distribute is on and the
\* level is not locked (line 494)
EditLevelHeight ==
  \E j \in 1..MaxEditLevel, v \in LevelHeightInputs :
    /\ j <= Active.num_rows
    /\ ~(auto_distribute /\ ~Active.lock_heights[j])
    /\ v # Active.bin_heights[j]
    /\ Edit(Event("level", v, j))

EditLock ==
  \E j \in 1..MaxEditLevel :
    /\ j <= Active.num_rows
    /\ Edit(Event("lock", ~Active.lock_heights[j], j))

EditAutoDistribute ==
  /\ Idle
  /\ edits' = edits + 1
  /\ ScriptRun(Event("auto_distribute", ~auto_distribute, 0),
               active_group_idx, ~auto_distribute)
  /\ UNCHANGED fnvars

EditShelfThickness ==
  \E v \in ShelfThicknessInputs :
    v # Active.shelf_thickness /\ Edit(Event("shelf_thickness", v, 0))

EditBinSplitThickness ==
  \E v \in BinSplitInputs :
    v # Active.bin_split_thickness /\ Edit(Event("bin_split_thickness", v, 0))

EditSidePanelThickness ==
  \E v \in SidePanelInputs :
    v # Active.side_panel_thickness /\ Edit(Event("side_panel_thickness", v, 0))

\* line 426
group_names(groups) == [i \in 1..Len(groups) |-> groups[i].name]

\* line 428, list.index: the first position (from 1) holding the name
index(names, name) ==
  CHOOSE i \in 1..Len(names) :
    names[i] = name /\ \A j \in 1..(i - 1) : names[j] # name

\* line 427: another group is selected; its widgets are new, so its
\* auto-distribute checkbox shows its default
SelectGroup ==
  \E selected_group_name \in {bay_groups[i].name : i \in 1..Len(bay_groups)} :
    LET k == index(group_names(bay_groups), selected_group_name)
    IN  /\ Idle
        /\ k # active_group_idx
        /\ edits' = edits + 1
        /\ ScriptRun(Event("select", k, 0), k, TRUE)
        /\ UNCHANGED fnvars

\* variant: the name is not looked up among the groups
AddGroup_NoNameCheck ==
  \E new_group_name \in NameInputs :
    /\ Idle
    /\ edits' = edits + 1
    /\ LET new_group == [bay_groups[1] EXCEPT !.name = new_group_name,
                                              !.bin_split_thickness = 18 * MM]
       IN  /\ Len(bay_groups) < MaxGroups
           /\ bay_groups' = Append(bay_groups, new_group)
           /\ shared_lists' = Len(bay_groups) + 1
           /\ pending_rerun' = TRUE
           /\ active_group_idx' = 1
           /\ auto_distribute' = IF active_group_idx = 1 THEN auto_distribute ELSE TRUE
           /\ run' = [NoRun EXCEPT !.event = "add_group"]
    /\ UNCHANGED fnvars

\* lines 404-417: the "Add Group" form
AddGroup ==
  \E new_group_name \in NameInputs :
    /\ Idle
    /\ edits' = edits + 1
    /\ IF \E i \in 1..Len(bay_groups) : bay_groups[i].name = new_group_name
       THEN ScriptRun(Event("add_rejected", 0, 0), active_group_idx, auto_distribute)
       ELSE LET new_group == [bay_groups[1] EXCEPT !.name = new_group_name,
                                                    !.bin_split_thickness = 18 * MM]
            IN  /\ Len(bay_groups) < MaxGroups
                /\ bay_groups' = Append(bay_groups, new_group)
                /\ shared_lists' = Len(bay_groups) + 1
                /\ pending_rerun' = TRUE
                \* the selectbox has new options: it shows the first group
                /\ active_group_idx' = 1
                /\ auto_distribute' = IF active_group_idx = 1 THEN auto_distribute ELSE TRUE
                /\ run' = [NoRun EXCEPT !.event = "add_group"]
    /\ UNCHANGED fnvars

\* lines 419-422: "Remove Last Group"
RemoveLastGroup ==
  /\ Idle
  /\ Len(bay_groups) > 1
  /\ edits' = edits + 1
  /\ bay_groups' = SubSeq(bay_groups, 1, Len(bay_groups) - 1)
  /\ shared_lists' = IF shared_lists = Len(bay_groups) THEN 0 ELSE shared_lists
  /\ pending_rerun' = TRUE
  /\ active_group_idx' = 1
  /\ auto_distribute' = IF active_group_idx = 1 THEN auto_distribute ELSE TRUE
  /\ run' = [NoRun EXCEPT !.event = "remove_group"]
  /\ UNCHANGED fnvars

\* lines 561-579: the "Generate PPTX" button
GeneratePPTX == Edit(Event("generate_pptx", 0, 0))

AppInit == AppStart /\ FnStart

AppNext ==
  \/ Rerun
  \/ EditNumBays
  \/ EditBayWidth
  \/ EditTotalHeight
  \/ EditGroundClearance
  \/ EditTopCap
  \/ EditNumRows
  \/ EditNumCols
  \/ EditLevelHeight
  \/ EditLock
  \/ EditAutoDistribute
  \/ EditShelfThickness
  \/ EditBinSplitThickness
  \/ EditSidePanelThickness
  \/ SelectGroup
  \/ AddGroup
  \/ RemoveLastGroup
  \/ GeneratePPTX

SpecApp == AppInit /\ [][AppNext]_vars

\* ------------------------------------------- the preview on bounded inputs
MaxLayoutRows == 3

LayoutHeights == {350 * MM, MM, Tol \div 2}

LayoutInit ==
  /\ \E nb \in {1, 2}, bw \in {1050 * MM, 30 * MM}, gc \in {0, 50 * MM},
        st \in {18 * MM, 25 * MM}, sp \in {18 * MM, 5 * MM}, bs \in {18 * MM, 25 * MM},
        nc \in {1, 3}, nr \in 1..MaxLayoutRows, c \in BOOLEAN :
       \E h \in [1..nr -> LayoutHeights] :
         LET g == [DefaultGroup EXCEPT
                     !.num_bays = nb, !.bay_width = bw, !.ground_clearance = gc,
                     !.shelf_thickness = st, !.side_panel_thickness = sp,
                     !.bin_split_thickness = bs, !.num_cols = nc, !.num_rows = nr,
                     !.has_top_cap = c, !.bin_heights = h,
                     !.lock_heights = [i \in 1..nr |-> FALSE]]
         IN  \E t \in {required_height(g), required_height(g) + Tol,
                       required_height(g) - Tol, 2000 * MM} :
               params = [g EXCEPT !.total_height = t]
  /\ orig = params
  /\ before = params
  /\ trace = << >>
  /\ errors = << >>
  /\ drawing = NoDrawing
  /\ document = NoDocument
  /\ AppStart

\* lines 536-550: the preview is drawn for a group without validation errors
CallDraw ==
  /\ trace = << >>
  /\ validate_group_params(params) = << >>
  /\ drawing' = draw_bay_group(params)
  /\ trace' = << "draw" >>
  /\ UNCHANGED << params, orig, before, errors, document >>
  /\ UNCHANGED appvars

LayoutNext == CallDraw

SpecLayout == LayoutInit /\ [][LayoutNext]_vars

\* -------------------------------------------- the export on bounded inputs
MaxExportRows == 2

\* a group whose total height is the sum of its parts
ExportGroups ==
  { [DefaultGroup EXCEPT
       !.num_bays = nb, !.bay_width = bw, !.ground_clearance = gc,
       !.side_panel_thickness = sp, !.num_cols = nc, !.num_rows = nr,
       !.has_top_cap = c, !.bin_heights = [i \in 1..nr |-> 350 * MM],
       !.lock_heights = [i \in 1..nr |-> FALSE],
       !.total_height = (nr * 350 * MM) + ((nr + (IF c THEN 1 ELSE 0)) * 18 * MM) + gc] :
      nb \in {1, 2}, bw \in {1050 * MM, MM}, gc \in {0, 50 * MM},
      sp \in {18 * MM, 5 * MM}, nc \in {1, 4}, nr \in 1..MaxExportRows, c \in BOOLEAN }

ExportInit ==
  /\ \/ \E g \in ExportGroups : bay_groups = << g >>
     \/ \E g \in ExportGroups, h \in ExportGroups :
          bay_groups = << g, [h EXCEPT !.name = "Group B"] >>
  /\ active_group_idx = 1
  /\ auto_distribute = TRUE
  /\ shared_lists = 0
  /\ pending_rerun = FALSE
  /\ edits = 0
  /\ run = NoRun
  /\ FnStart

\* lines 561-569: the file is generated when no group has a validation error
CallExport ==
  /\ trace = << >>
  /\ \A i \in 1..Len(bay_groups) : validate_group_params(bay_groups[i]) = << >>
  /\ document' = create_editable_powerpoint(bay_groups)
  /\ trace' = << "export" >>
  /\ UNCHANGED << params, orig, before, errors, drawing >>
  /\ UNCHANGED appvars

ExportNext == CallExport

SpecExport == ExportInit /\ [][ExportNext]_vars

\* ------------------------------------------------ reading a group's heights
ShelfCount(g) == g.num_rows + (IF g.has_top_cap THEN 1 ELSE 0)

Available(g) == g.total_height - g.ground_clearance - ShelfCount(g) * g.shelf_thickness

Unlocked(g) == {i \in 1..Len(g.lock_heights) : ~g.lock_heights[i]}

Locked(g) == {i \in 1..Len(g.lock_heights) : g.lock_heights[i]}

LockedSum(g) ==
  sum([i \in 1..Len(g.bin_heights) |-> IF i \in Locked(g) THEN g.bin_heights[i] ELSE 0])

LastCall == IF trace = << >> THEN "none" ELSE trace[Len(trace)]

\* ------------------------------------------------------------------ claims

\* C1: right after update_total_height the group's total_height equals
\* sum(bin_heights) + (num_rows + (1 if has_top_cap else 0)) * shelf_thickness
\* + ground_clearance, and no other field of the group has changed.
C1_HeightIdentity ==
  LastCall = "update" =>
    /\ params.total_height =
         sum(params.bin_heights) + ShelfCount(params) * params.shelf_thickness
           + params.ground_clearance
    /\ params = [before EXCEPT !.total_height = params.total_height]

C1_Witness ==
  /\ LastCall = "update"
  /\ params.has_top_cap
  /\ params.num_rows = 5
  /\ before.total_height = 2000 * MM
  /\ params.total_height = 1908 * MM

\* C2: after distribute_total_height on a group with a locked level, an
\* unlocked level and available > 0, every unlocked level holds
\* (available - sum of locked heights) / |U| and the height identity holds.
C2_LockedSubtracted ==
  ( /\ LastCall = "distribute"
    /\ Locked(before) # {}
    /\ Unlocked(before) # {}
    /\ Available(before) > 0 ) =>
    /\ \A i \in Unlocked(before) :
         params.bin_heights[i] =
           FDiv(Available(before) - LockedSum(before), Cardinality(Unlocked(before)))
    /\ Abs(required_height(params) - params.total_height) <= Tol

\* C3: when available > 0 and some level is unlocked, distribute_total_height
\* sets every unlocked level to available / |U|; the default group at total
\* height 2000 with all five levels unlocked gets 368.4 on every level.
C3_UniformShare ==
  ( /\ LastCall = "distribute"
    /\ Available(before) > 0
    /\ Unlocked(before) # {} ) =>
    /\ \A i \in Unlocked(before) :
         params.bin_heights[i] = FDiv(Available(before), Cardinality(Unlocked(before)))
    /\ ( /\ before.total_height = 2000 * MM
         /\ before.num_rows = 5
         /\ before.has_top_cap
         /\ Locked(before) = {} ) =>
         \A i \in 1..5 : 10 * params.bin_heights[i] = 3684 * MM

C3_Witness ==
  /\ LastCall = "distribute"
  /\ before.total_height = 2000 * MM
  /\ before.num_rows = 5
  /\ before.has_top_cap
  /\ Locked(before) = {}
  /\ \A i \in 1..5 : before.bin_heights[i] = 350 * MM
  /\ \A i \in 1..5 : 10 * params.bin_heights[i] = 3684 * MM

\* C4: distribute_total_height changes only the heights of unlocked levels:
\* locked heights, total_height, the lock flags and every other field stay,
\* and with available <= 0 or every level locked the group is unchanged.
C4_LockInvariance ==
  LastCall = "distribute" =>
    /\ Len(params.bin_heights) = Len(before.bin_heights)
    /\ \A i \in Locked(before) : params.bin_heights[i] = before.bin_heights[i]
    /\ params = [before EXCEPT !.bin_heights = params.bin_heights]
    /\ (Available(before) <= 0 \/ Unlocked(before) = {}) => params = before

C4_Witness ==
  /\ LastCall = "distribute"
  /\ Locked(before) # {}
  /\ Unlocked(before) # {}
  /\ \A i \in Unlocked(before) : params.bin_heights[i] # before.bin_heights[i]

ListedViolations(g) ==
  {m \in {"num_bays", "num_cols", "num_rows", "bay_width", "shelf_thickness",
          "side_panel_thickness", "bin_split_thickness", "ground_clearance",
          "height"} :
     \/ m = "num_bays" /\ ~(g.num_bays >= 1)
     \/ m = "num_cols" /\ ~(g.num_cols >= 1)
     \/ m = "num_rows" /\ ~(g.num_rows >= 1)
     \/ m = "bay_width" /\ ~(g.bay_width > 0)
     \/ m = "shelf_thickness" /\ ~(g.shelf_thickness > 0)
     \/ m = "side_panel_thickness" /\ ~(g.side_panel_thickness > 0)
     \/ m = "bin_split_thickness" /\ ~(g.bin_split_thickness > 0)
     \/ m = "ground_clearance" /\ ~(g.ground_clearance >= 0)
     \/ m = "height" /\ ~(Abs(sum(g.bin_heights) + ShelfCount(g) * g.shelf_thickness
                               + g.ground_clearance - g.total_height) <= Tol)}

Messages(e) == {e[i] : i \in 1..Len(e)}

\* C6 as stated: the returned list has exactly one message per violated
\* condition among the nine listed checks and is empty exactly when none of
\* the nine is violated.
C6_NineChecks ==
  trace = << "validate" >> =>
    /\ Messages(errors) = ListedViolations(params)
    /\ Len(errors) = Cardinality(ListedViolations(params))
    /\ (errors = << >>) <=> (ListedViolations(params) = {})

\* C6 amended: the validator has a tenth independent check, total_height > 0;
\* the returned list has exactly one message per violated condition among the
\* nine listed checks and total_height > 0, and is empty exactly when none of
\* the ten is violated.
C6_TenChecks ==
  trace = << "validate" >> =>
    LET violated == ListedViolations(params)
                      \cup (IF params.total_height > 0 THEN {} ELSE {"total_height"})
    IN  /\ Messages(errors) = violated
        /\ Len(errors) = Cardinality(violated)
        /\ (errors = << >>) <=> (violated = {})

C6_Witness ==
  /\ trace = << "validate" >>
  /\ Len(errors) >= 3
  /\ "total_height" \in Messages(errors)
  /\ "height" \in Messages(errors)
  /\ "num_bays" \in Messages(errors)

\* C7: in every run draw_bay_group gets only a group for which
\* validate_group_params returned no error in that run, and
\* create_editable_powerpoint gets the groups only when every group validates
\* with no error; when some group fails, nothing is exported.
C7_ValidationGate ==
  /\ run.previewed # NoGroup =>
       run.errors = << >> /\ validate_group_params(run.previewed) = << >>
  /\ run.exported # << >> =>
       \A i \in 1..Len(run.exported) : validate_group_params(run.exported[i]) = << >>
  /\ (\E i \in 1..Len(run.validated) : run.validated[i] # << >>) => run.exported = << >>

C7_Witness ==
  /\ run.event = "generate_pptx"
  /\ Len(bay_groups) = 2
  /\ \E i \in 1..2 : run.validated[i] # << >>
  /\ run.previewed # NoGroup
  /\ run.exported = << >>

C7_WitnessExported ==
  /\ run.event = "generate_pptx"
  /\ run.exported # << >>

C7_WitnessNoPreview ==
  /\ run.errors # << >>
  /\ run.previewed = NoGroup

\* C8: a change of num_rows from m to n resizes bin_heights and lock_heights
\* to length n, keeps their first min(m, n) entries, fills added levels with
\* the default height and an unlocked flag, and every call of
\* distribute_total_height or update_total_height finds
\* len(bin_heights) = len(lock_heights) = num_rows.
C8_ResizeSafety ==
  /\ run.event = "num_rows" => run.resize # << >>
  /\ \A k \in 1..Len(run.resize) :
       LET r == run.resize[k]
           kept == Min(r.from, r.to)
       IN  /\ r.from # r.to
           /\ Len(r.heights_after) = r.to
           /\ Len(r.locks_after) = r.to
           /\ SubSeq(r.heights_after, 1, kept) = SubSeq(r.heights_before, 1, kept)
           /\ SubSeq(r.locks_after, 1, kept) = SubSeq(r.locks_before, 1, kept)
           /\ \A i \in (r.from + 1)..r.to :
                r.heights_after[i] = r.heights_before[1] /\ ~r.locks_after[i]
  /\ \A k \in 1..Len(run.calls) :
       /\ run.calls[k].len_heights = run.calls[k].num_rows
       /\ run.calls[k].len_locks = run.calls[k].num_rows

C8_Witness ==
  /\ run.event = "num_rows"
  /\ run.resize # << >>
  /\ run.resize[1].from = 5
  /\ run.resize[1].to = 6
  /\ run.resize[1].locks_before[1]
  /\ \E k \in 1..Len(run.calls) : run.calls[k].line = 478 /\ run.calls[k].num_rows = 6

C8_WitnessTrim ==
  /\ run.event = "num_rows"
  /\ run.resize # << >>
  /\ run.resize[1].to < run.resize[1].from

\* two rectangles have overlapping interiors
Overlap(p, q) ==
  /\ p.x < q.x + q.width
  /\ q.x < p.x + p.width
  /\ p.y < q.y + q.height
  /\ q.y < p.y + p.height

Horizontal(p) == p.role \in {"Shelf", "TopCap"}

Drawn == trace = << "draw" >>

\* C9 as stated: no two rectangles the layout emits for a group that passes
\* validation have overlapping interiors.
C9_NoOverlap ==
  Drawn =>
    \A i, j \in 1..Len(drawing.parts) :
      i < j => ~Overlap(drawing.parts[i], drawing.parts[j])

\* C9 amended: for a group that passes validation, with every level height at
\* least 0.1 mm and a bin width that is not negative, the only rectangles with
\* overlapping interiors are a shelf or the top cap with a side panel or a
\* divider: side panels, dividers, and shelves with the top cap are pairwise
\* disjoint among themselves, and no divider overlaps a side panel.
C9_OnlyShelvesCross ==
  ( /\ Drawn
    /\ \A i \in 1..Len(params.bin_heights) : params.bin_heights[i] >= Tol
    /\ bin_width(params) >= 0 ) =>
    \A i, j \in 1..Len(drawing.parts) :
      (i < j /\ Overlap(drawing.parts[i], drawing.parts[j])) =>
        Horizontal(drawing.parts[i]) # Horizontal(drawing.parts[j])

C9_Witness ==
  /\ Drawn
  /\ \A i \in 1..Len(params.bin_heights) : params.bin_heights[i] >= Tol
  /\ bin_width(params) >= 0
  /\ params.num_bays = 2
  /\ params.num_cols = 3
  /\ params.num_rows = 3
  /\ params.has_top_cap
  /\ Len(drawing.parts) = 2 + 4 + 3 + 1
  /\ \E i, j \in 1..Len(drawing.parts) :
       /\ drawing.parts[i].role = "SidePanel"
       /\ drawing.parts[j].role = "Shelf"
       /\ Overlap(drawing.parts[i], drawing.parts[j])
  /\ \E i, j \in 1..Len(drawing.parts) :
       /\ drawing.parts[i].role = "Divider"
       /\ drawing.parts[j].role = "TopCap"
       /\ Overlap(drawing.parts[i], drawing.parts[j])

\* the spans of the walk, bottom up: each row's shelf, then its bin, and the
\* top cap last
Spans(d) ==
  [k \in 1..(2 * Len(d.levels)) |->
     IF k % 2 = 1 THEN d.levels[(k + 1) \div 2].shelf ELSE d.levels[k \div 2].bin]
  \o d.cap

\* C10 as stated: the spans of the shelves, the top cap and the level bins of
\* a group that passes validation are pairwise disjoint and tile
\* [0, total_height) without gaps.
C10_TilesFromFloor ==
  Drawn =>
    LET sp == Spans(drawing)
    IN  /\ sp[1][1] = 0
        /\ \A k \in 1..(Len(sp) - 1) : sp[k][2] = sp[k + 1][1]
        /\ sp[Len(sp)][2] = params.total_height

\* C10 amended: for a group that passes validation, with level heights that
\* are not negative, the spans of the shelves and level bins of the walk are
\* pairwise disjoint and tile, without gaps, the interval from
\* ground_clearance to ground_clearance + sum(shelf_thickness + bin_heights[i]);
\* that end is within 0.1 mm of total_height less the top cap's
\* shelf_thickness.  Nothing covers [0, ground_clearance), and the top cap is
\* drawn from total_height - min(shelf_thickness, 18) to total_height.
C10_TilesFromClearance ==
  ( /\ Drawn
    /\ \A i \in 1..Len(params.bin_heights) : params.bin_heights[i] >= 0 ) =>
    LET lv == drawing.levels
        n == Len(lv)
        walk_end == params.ground_clearance
                      + n * params.shelf_thickness + sum(params.bin_heights)
        cap_thickness == IF params.has_top_cap THEN params.shelf_thickness ELSE 0
    IN  /\ n = params.num_rows
        /\ lv[1].shelf[1] = params.ground_clearance
        /\ \A i \in 1..n :
             /\ lv[i].shelf[1] < lv[i].shelf[2]
             /\ lv[i].shelf[2] = lv[i].bin[1]
             /\ lv[i].bin[1] <= lv[i].bin[2]
             /\ i < n => lv[i].bin[2] = lv[i + 1].shelf[1]
        /\ lv[n].bin[2] = walk_end
        /\ Abs(walk_end - (params.total_height - cap_thickness)) <= Tol
        /\ params.has_top_cap =>
             /\ drawing.cap = << << params.total_height
                                      - Min(params.shelf_thickness, 18 * MM),
                                    params.total_height >> >>
             /\ drawing.cap[1][1] >= walk_end - Tol

C10_Witness ==
  /\ Drawn
  /\ params.ground_clearance = 50 * MM
  /\ params.has_top_cap
  /\ params.num_rows = 3
  /\ params.shelf_thickness = 25 * MM
  /\ params.total_height = required_height(params) + Tol
  /\ Len(drawing.levels) = 3
  /\ drawing.levels[3].bin[2] < drawing.cap[1][1]

\* the export has run
Exported == trace = << "export" >>

\* C11: in every exported group the bins and the dividers of a bay exactly
\* fill the bay width, numCols * binWidth + (numCols - 1) * binSplitThickness
\* = bayWidth (up to the rounding of the division); the first group's 1050 mm
\* bay with 4 columns and 18 mm splits has bins of 249.0 mm; the preview, its
\* bin-width annotations and the export use the same bin width.
C11_BinsFillBay ==
  Exported =>
    \A i \in 1..Len(bay_groups) :
      LET g == bay_groups[i]
          w == document.slides[i].bin_width
      IN  /\ Abs((g.num_cols * w) + ((g.num_cols - 1) * g.bin_split_thickness)
                   - g.bay_width) <= g.num_cols
          /\ (g.bay_width = 1050 * MM /\ g.num_cols = 4
                /\ g.bin_split_thickness = 18 * MM /\ g.side_panel_thickness = 18 * MM)
               => w = 249 * MM
          /\ bin_width(g) = w
          /\ dimension_bin_width(g) = w
          /\ \A k \in 1..Len(document.slides[i].dimensions) :
               document.slides[i].dimensions[k].kind = "bin_width"
                 => document.slides[i].dimensions[k].text = w

\* the number of rectangles of a slide that the calls for the given parts added
Rectangles(slide, roles) ==
  Cardinality({k \in 1..Len(slide.shapes) : slide.shapes[k].role \in roles})

\* C12: for every exported group the bill-of-materials row lists 2 side
\* panels, numRows + (1 if hasTopCap) shelves and (numCols - 1) * numBays
\* dividers; these are the numbers of side-panel, shelf (top cap included) and
\* divider rectangles on the group's slide, none of them the placeholder of a
\* rejected call when the bin width is not negative; the totals row is the
\* column-wise sum of the rows.
C12_BillOfMaterials ==
  Exported =>
    LET rows == document.summary.rows
        total == document.summary.total
    IN  /\ Len(rows) = Len(bay_groups)
        /\ Len(document.slides) = Len(bay_groups)
        /\ \A i \in 1..Len(bay_groups) :
             LET g == bay_groups[i]
                 slide == document.slides[i]
             IN  /\ rows[i].name = g.name
                 /\ rows[i].side_panels = 2
                 /\ rows[i].shelves = g.num_rows + (IF g.has_top_cap THEN 1 ELSE 0)
                 /\ rows[i].dividers = (g.num_cols - 1) * g.num_bays
                 /\ Rectangles(slide, {"SidePanel"}) = rows[i].side_panels
                 /\ Rectangles(slide, {"Shelf", "TopCap"}) = rows[i].shelves
                 /\ Rectangles(slide, {"Divider"}) = rows[i].dividers
                 /\ Len(slide.shapes)
                      = rows[i].side_panels + rows[i].shelves + rows[i].dividers
                 /\ slide.bin_width >= 0 =>
                      \A k \in 1..Len(slide.shapes) : ~slide.shapes[k].fallback
        /\ total.side_panels = sum([i \in 1..Len(rows) |-> rows[i].side_panels])
        /\ total.shelves = sum([i \in 1..Len(rows) |-> rows[i].shelves])
        /\ total.dividers = sum([i \in 1..Len(rows) |-> rows[i].dividers])

\* two groups with different parts are exported: 2 bays of 4 columns with a top
\* cap, and 1 bay of 1 column without
C12_Witness ==
  /\ Exported
  /\ Len(bay_groups) = 2
  /\ bay_groups[1].num_bays = 2 /\ bay_groups[1].num_cols = 4
  /\ bay_groups[1].num_rows = 2 /\ bay_groups[1].has_top_cap
  /\ bay_groups[1].bay_width = 1050 * MM
  /\ bay_groups[2].num_cols = 1 /\ ~bay_groups[2].has_top_cap
  /\ document.summary.rows[1].dividers = 6
  /\ document.summary.rows[1].shelves = 3
  /\ Rectangles(document.slides[1], {"Divider"}) = 6
  /\ document.summary.rows[2].dividers = 0
  /\ document.summary.total.shelves = 3 + bay_groups[2].num_rows
  /\ document.summary.total.side_panels = 4

\* a slide where every divider call was rejected and left its placeholder
C12_WitnessPlaceholder ==
  /\ Exported
  /\ Rectangles(document.slides[1], {"Divider"}) = 3
  /\ \A k \in 1..Len(document.slides[1].shapes) :
       document.slides[1].shapes[k].role = "Divider"
         => document.slides[1].shapes[k].fallback

\* groups i and j hold the same bin_heights and lock_heights list objects
SharesLists(i, j) == i # j /\ {i, j} = {1, shared_lists}

\* C13: a group added from the template is a deep, independent copy: in every
\* reachable state no two groups of the collection share their levelHeights
\* or levelLocked sequence.
C13_NoSharedLists ==
  \A i, j \in 1..Len(bay_groups) : ~SharesLists(i, j)

\* C14: the slide of every exported group holds its dimension annotations as
\* connector lines: one per bin of every bay, a net-height and a pitch line
\* per level, the total width and the total height, 2 + 2 * numRows +
\* numBays * numCols connectors in all; no add_dimension call is rejected.
C14_AllDimensionsDrawn ==
  Exported =>
    \A i \in 1..Len(bay_groups) :
      LET g == bay_groups[i]
          slide == document.slides[i]
      IN  /\ Len(slide.dimensions) = 2 + (2 * g.num_rows) + (g.num_bays * g.num_cols)
          /\ slide.connectors = slide.dimensions

\* the reconciliation operations the last script run invoked
Invoked == {run.calls[k].op : k \in 1..Len(run.calls)}

\* C15: the run that processes one edit of the total height, the ground
\* clearance, the top-cap flag, the row count, the shelf thickness, a level
\* height or a lock flag invokes at most one of distribute_total_height and
\* update_total_height, whether auto-distribute is on or off.
C15_OneReconciliation ==
  run.event \in {"total_height", "ground_clearance", "has_top_cap", "num_rows",
                 "shelf_thickness", "level", "lock"}
    => Cardinality(Invoked) <= 1

\* C16: after any sequence of add-group and remove-last-group operations the
\* collection holds at least one group and the names of its groups are
\* pairwise distinct, so the name of every group resolves (lines 426-429) to
\* that very group; an add with a name already in use adds, removes and
\* renames no group.
C16_UniqueNames ==
  /\ [](/\ Len(bay_groups) >= 1
        /\ \A i, j \in 1..Len(bay_groups) :
             i # j => bay_groups[i].name # bay_groups[j].name
        /\ \A i \in 1..Len(bay_groups) :
             index(group_names(bay_groups), bay_groups[i].name) = i
        /\ active_group_idx \in 1..Len(bay_groups))
  /\ [][(edits' # edits /\ run'.event = "add_rejected")
          => group_names(bay_groups') = group_names(bay_groups)]_vars

\* a group was added and removed again, and then an add with the name of the
\* remaining group was rejected
C16_Witness ==
  /\ run.event = "add_rejected"
  /\ edits = 3
  /\ Len(bay_groups) = 1
  /\ bay_groups[1].name = "Group A"

\* the second of two groups is selected by its name
C16_WitnessSelected ==
  /\ Len(bay_groups) = 2
  /\ active_group_idx = 2
  /\ run.event = "select"
  /\ run.previewed.name = bay_groups[2].name

\* an add was rejected while two groups exist
C16_WitnessRejectedSecond ==
  /\ run.event = "add_rejected"
  /\ Len(bay_groups) = 2

====
